---- MODULE Spec2Model ----
(***************************************************************************)
(* A model of book-maker.py: the lc0 protocol driver (LeelaInterface), the *)
(* recursive tree exploration (explore_tree), the polyglot move and entry  *)
(* encoding, the book writer and the orchestrating main loop.              *)
(***************************************************************************)
EXTENDS Integers, Sequences, FiniteSets, TLC

VARIABLES
    mpc,        \* position of the main flow (the __main__ loop and what it calls)
    thread,     \* the background reader thread: "none", "running", "exited", "raised"
    engine,     \* the lc0 subprocess: "idle", "searching", "stopping", "dead"
    pipe,       \* engine stdout: lines written by the engine, not yet read
    args,       \* parsed command line: [multiwrite, visit_threshold]
    threshold,  \* visit_threshold argument of the running explore_tree pass
    entries,    \* the entries list of the running pass
    stack,      \* explore_tree call stack, innermost call last
    children,   \* the children dict probe() is filling
    got,        \* history: the lines the running probe() has read
    tree,       \* the engine's stopped search tree, as far as it has been dumped
    probed,     \* history: the probes that returned in this pass: path and mapping
    prev,       \* history: threshold, probes and entries of the pass before, same tree
    files,      \* the book files on disk, by threshold suffix (0: args.output)
    dumped,     \* number of child lines the engine has dumped so far
    sawBest,    \* history: the reader of the current search consumed a bestmove line
    arg,        \* input of a pure function under check
    res         \* its result

vars == <<mpc, thread, engine, pipe, args, threshold, entries, stack, children, got,
          tree, probed, prev, files, dumped, sawBest, arg, res>>

driverVars == <<mpc, thread, engine, pipe, args, threshold, entries, stack,
                children, got, tree, probed, prev, files, dumped, sawBest>>

(***************************************************************************)
(* Bounds of the model.                                                    *)
(***************************************************************************)
\* child lines the engine dumps in one run (its search tree is finite)
MaxDumped == 3
\* lines the engine may have written ahead of the reader during a search
MaxPipe == 1
\* longest entries list handed to write_polyglot_bin on its own
MaxEntries == 3

None == "None"

\* no pass before this one on the same tree
NoPrev == [threshold |-> 0, probed |-> <<>>, entries |-> <<>>]

Min(a, b) == IF a < b THEN a ELSE b

\* x | y on non-negative integers
RECURSIVE BitOr(_, _)
BitOr(x, y) ==
    IF x = 0 THEN y
    ELSE IF y = 0 THEN x
    ELSE (IF x % 2 = 1 \/ y % 2 = 1 THEN 1 ELSE 0) + 2 * BitOr(x \div 2, y \div 2)

\* x << k
RECURSIVE ShiftLeft(_, _)
ShiftLeft(x, k) == IF k = 0 THEN x ELSE ShiftLeft(2 * x, k - 1)

(***************************************************************************)
(* The chess collaborator (python-chess), as far as the program uses it.   *)
(***************************************************************************)
Square(file, rank) == rank * 8 + file
SquareFile(sq) == sq % 8
SquareRank(sq) == sq \div 8

Move(from, to, promo) == [from_square |-> from, to_square |-> to, promotion |-> promo]

PieceTypes == {None, "KNIGHT", "BISHOP", "ROOK", "QUEEN"}

\* chess.Board(): white to move, nothing moved, kings and rooks at home
StartBoard ==
    [turn   |-> "w",
     moved  |-> {},
     kings  |-> {Square(4, 0), Square(4, 7)},
     rooks  |-> {Square(0, 0), Square(7, 0), Square(0, 7), Square(7, 7)}]

\* the moves the modelled engine reports: three knight developments
Nf3 == Move(Square(6, 0), Square(5, 2), None)
Nc3 == Move(Square(1, 0), Square(2, 2), None)
Nf6 == Move(Square(6, 7), Square(5, 5), None)
EngineMoves == {Nf3, Nc3, Nf6}

Mover(move) == IF SquareRank(move.from_square) < 4 THEN "w" ELSE "b"

\* board.is_legal(move), for the moves of EngineMoves: the knight still stands
\* on its origin square and its side is to move
IsLegal(board, move) == Mover(move) = board.turn /\ move \notin board.moved

\* board.push(move)
Push(board, move) ==
    [board EXCEPT !.turn = IF board.turn = "w" THEN "b" ELSE "w",
                  !.moved = board.moved \cup {move}]

\* board.is_castling(move): the king leaves its square by two files or more,
\* or goes to the square of a rook of its own side
IsCastling(board, move) ==
    /\ move.from_square \in board.kings
    /\ LET d == SquareFile(move.from_square) - SquareFile(move.to_square)
       IN  \/ d > 1 \/ d < -1
           \/ /\ move.to_square \in board.rooks
              /\ SquareRank(move.to_square) = SquareRank(move.from_square)

MoveIndex(move) == CASE move = Nf3 -> 1 [] move = Nc3 -> 2 [] move = Nf6 -> 4 [] OTHER -> 0

RECURSIVE SumIndex(_)
SumIndex(S) ==
    IF S = {} THEN 0
    ELSE LET m == CHOOSE x \in S : TRUE IN MoveIndex(m) + SumIndex(S \ {m})

\* chess.polyglot.zobrist_hash(board): a key that depends on the position only,
\* not on the order of the moves that led to it
ZobristHash(board) == 2 * SumIndex(board.moved) + (IF board.turn = "w" THEN 1 ELSE 0)

(***************************************************************************)
(* Move and entry encoding, the weight of an entry, the book writer.       *)
(***************************************************************************)
\* the promotion table of move_to_polyglot_int
PromotionCode(promotion) ==
    CASE promotion = None -> 0
      [] promotion = "KNIGHT" -> 1
      [] promotion = "BISHOP" -> 2
      [] promotion = "ROOK" -> 3
      [] promotion = "QUEEN" -> 4

\* move_to_polyglot_int gone wrong: the promotion code shifted by 11, into the
\* top bit of the origin square
move_to_polyglot_int_shift11(board, move) ==
    LET to_square == move.to_square
        from_square == move.from_square
        promotion == PromotionCode(move.promotion)
    IN  BitOr(BitOr(to_square, ShiftLeft(from_square, 6)), ShiftLeft(promotion, 11))

move_to_polyglot_int(board, move) ==
    LET to_square == move.to_square
        from_square == move.from_square
        promotion == PromotionCode(move.promotion)
    IN  BitOr(BitOr(to_square, ShiftLeft(from_square, 6)), ShiftLeft(promotion, 12))

\* chess.polyglot.Entry(key, raw_move, weight, learn)
make_entry(board, move, weight, learn) ==
    [key |-> ZobristHash(board),
     raw_move |-> move_to_polyglot_int(board, move),
     weight |-> weight,
     learn |-> learn]

\* Weight gone wrong: the quotient cut to 16 bits instead of clamped
WeightWrapped(visits) == (visits \div 256) % 65536

\* the weight explore_tree gives the entry of a best move with `visits` visits
Weight(visits) == Min(65535, visits \div 256)

\* x as `width` big-endian bytes
RECURSIVE BigEndian(_, _)
BigEndian(x, width) ==
    IF width = 0 THEN <<>> ELSE Append(BigEndian(x \div 256, width - 1), x % 256)

\* chess.polyglot.ENTRY_STRUCT.pack(*entry), format ">QHHI"
Pack(entry) ==
    BigEndian(entry.key, 8) \o BigEndian(entry.raw_move, 2)
        \o BigEndian(entry.weight, 2) \o BigEndian(entry.learn, 4)

\* InsertByKey gone wrong: e goes before the elements of its own key
RECURSIVE InsertBeforeEqual(_, _)
InsertBeforeEqual(sorted, e) ==
    IF sorted = <<>> THEN <<e>>
    ELSE IF sorted[Len(sorted)].key < e.key THEN Append(sorted, e)
    ELSE Append(InsertBeforeEqual(SubSeq(sorted, 1, Len(sorted) - 1), e), sorted[Len(sorted)])

\* list.insert of e behind every element whose key is not larger
RECURSIVE InsertByKey(_, _)
InsertByKey(sorted, e) ==
    IF sorted = <<>> THEN <<e>>
    ELSE IF sorted[Len(sorted)].key <= e.key THEN Append(sorted, e)
    ELSE Append(InsertByKey(SubSeq(sorted, 1, Len(sorted) - 1), e), sorted[Len(sorted)])

\* sorted(entries, key=lambda entry: entry.key): Python's sort is stable
RECURSIVE SortedByKey(_)
SortedByKey(es) ==
    IF es = <<>> THEN <<>>
    ELSE InsertByKey(SortedByKey(SubSeq(es, 1, Len(es) - 1)), es[Len(es)])

RECURSIVE PackAll(_)
PackAll(es) == IF es = <<>> THEN <<>> ELSE Pack(es[1]) \o PackAll(Tail(es))

\* the bytes write_polyglot_bin(f, entries) writes to f
write_polyglot_bin(es) == PackAll(SortedByKey(es))

(***************************************************************************)
(* The driver at rest, for the specifications of the pure functions.       *)
(***************************************************************************)
DriverAtRest ==
    /\ mpc = "launch" /\ thread = "none" /\ engine = "idle" /\ pipe = <<>>
    /\ args = [multiwrite |-> FALSE, visit_threshold |-> 10]
    /\ threshold = 0 /\ entries = <<>> /\ stack = <<>> /\ children = <<>> /\ got = <<>>
    /\ tree = {} /\ probed = <<>> /\ prev = NoPrev /\ files = {} /\ dumped = 0
    /\ sawBest = FALSE

(***************************************************************************)
(* move_to_polyglot_int on its own: SpecEnc.                               *)
(***************************************************************************)
EncSquares ==
    {Square(f, r) : f \in {0, 2, 4, 6, 7}, r \in {0, 7}} \cup {Square(4, 1), Square(4, 6)}

\* positions with kings and rooks on their home squares, white or black to
\* move (the board tracks no other piece), and one whose white king has left e1
EncBoards ==
    {StartBoard, Push(StartBoard, Nf3),
     [StartBoard EXCEPT !.kings = {Square(5, 0), Square(4, 7)}]}

InitEnc ==
    /\ DriverAtRest
    /\ arg \in [board : EncBoards,
                move : {Move(f, t, p) : f \in EncSquares, t \in EncSquares, p \in PieceTypes}]
    /\ res = <<>>

Encode ==
    /\ res = <<>>
    /\ res' = <<move_to_polyglot_int(arg.board, arg.move)>>
    /\ UNCHANGED <<driverVars, arg>>

SpecEnc == InitEnc /\ [][Encode]_vars

(***************************************************************************)
(* The weight of an entry on its own: SpecWeight.                          *)
(***************************************************************************)
WeightInputs ==
    {256 * q + r : q \in (0 .. 12) \cup (65533 .. 65538) \cup {131070, 131071},
                   r \in {0, 1, 128, 255}}

InitWeight ==
    /\ DriverAtRest
    /\ arg \in WeightInputs
    /\ res = <<>>

EmitWeight ==
    /\ res = <<>>
    /\ res' = <<make_entry(StartBoard, Nf3, Weight(arg), 0)>>
    /\ UNCHANGED <<driverVars, arg>>

SpecWeight == InitWeight /\ [][EmitWeight]_vars

(***************************************************************************)
(* write_polyglot_bin on its own: SpecSort.                                *)
(***************************************************************************)
SortEntries ==
    {[key |-> k, raw_move |-> move_to_polyglot_int(StartBoard, m), weight |-> 3, learn |-> 0] :
        k \in {1, 2, 256}, m \in {Nf3, Nc3}}

SeqsUpTo(S, n) == UNION {[1 .. k -> S] : k \in 0 .. n}

InitSort ==
    /\ DriverAtRest
    /\ arg \in SeqsUpTo(SortEntries, MaxEntries)
    /\ res = <<>>

WriteBook ==
    /\ res = <<>>
    /\ res' = <<write_polyglot_bin(arg)>>
    /\ UNCHANGED <<driverVars, arg>>

SpecSort == InitSort /\ [][WriteBook]_vars

(***************************************************************************)
(* The engine's output lines and the pipe they travel on.                  *)
(***************************************************************************)
\* visit counts the modelled engine reports
Visits == {5, 1000}
\* values of --visit-threshold
Thresholds == {10, 1000}

NoMove == Move(0, 0, None)

\* a line of engine output: the tokens it contains, and the values that follow
\* its move= and n= tokens; eof is the empty line readline gives at end of stream
InfoLine == [eof |-> FALSE, tok |-> {"info"}, move |-> NoMove, n |-> 0]
BestmoveLine == [eof |-> FALSE, tok |-> {"bestmove"}, move |-> NoMove, n |-> 0]
EndDumpLine == [eof |-> FALSE, tok |-> {"end-dump"}, move |-> NoMove, n |-> 0]
EofLine == [eof |-> TRUE, tok |-> {}, move |-> NoMove, n |-> 0]
ChildLine(m, v) == [eof |-> FALSE, tok |-> {"move=", "n="}, move |-> m, n |-> v]
ChildLines == {ChildLine(m, v) : m \in EngineMoves, v \in Visits}
\* a dump line that lacks one of its two tokens
BadLines ==
    {[ChildLine(Nf3, 1000) EXCEPT !.tok = {"n="}], [ChildLine(Nf3, 1000) EXCEPT !.tok = {"move="}]}

\* LeelaInterface.readline can return: the next line of the pipe, or the empty
\* line once the engine has closed its output; otherwise it blocks
CanRead == pipe # <<>> \/ engine = "dead"
ReadLine == IF pipe # <<>> THEN Head(pipe) ELSE EofLine
PipeAfterRead == IF pipe # <<>> THEN Tail(pipe) ELSE pipe

(***************************************************************************)
(* Python dict (insertion-ordered) as a sequence of <<key, value>> pairs.  *)
(***************************************************************************)
DictHas(d, k) == \E i \in 1 .. Len(d) : d[i][1] = k
DictGet(d, k) == d[CHOOSE i \in 1 .. Len(d) : d[i][1] = k][2]
\* d[k] = v: a new key goes last, a known key keeps its place
DictSet(d, k, v) ==
    IF DictHas(d, k)
    THEN [i \in 1 .. Len(d) |-> IF d[i][1] = k THEN <<k, v>> ELSE d[i]]
    ELSE Append(d, <<k, v>>)

\* BestMove gone wrong: the first key of the dict, whatever its value
BestMoveFirstKey(d) == d[1][1]

\* BestMove gone wrong: on a tie the last key of the largest value
RECURSIVE MaxScanLast(_, _, _)
MaxScanLast(d, i, best) ==
    IF i > Len(d) THEN best
    ELSE MaxScanLast(d, i + 1, IF d[i][2] >= d[best][2] THEN i ELSE best)
BestMoveLastOfTies(d) == d[MaxScanLast(d, 2, 1)][1]

\* max(children, key=children.__getitem__) scans the keys in dict order and
\* keeps the first one of the largest value
RECURSIVE MaxScan(_, _, _)
MaxScan(d, i, best) ==
    IF i > Len(d) THEN best
    ELSE MaxScan(d, i + 1, IF d[i][2] > d[best][2] THEN i ELSE best)
BestMove(d) == d[MaxScan(d, 2, 1)][1]

(***************************************************************************)
(* The engine.                                                             *)
(***************************************************************************)
TreeKnows(path) == \E t \in tree : t.path = path
TreeLines(path) == (CHOOSE t \in tree : t.path = path).lines

\* while it searches, the engine writes info lines
EngineInfo ==
    /\ mpc # "crashed"
    /\ engine \in {"searching", "stopping"}
    /\ Len(pipe) < MaxPipe
    /\ pipe' = Append(pipe, InfoLine)
    /\ UNCHANGED <<mpc, thread, engine, args, threshold, entries, stack, children, got,
                   tree, probed, prev, files, dumped, sawBest, arg, res>>

\* after a stop command, the engine ends the search with a bestmove line
EngineBestmove ==
    /\ mpc # "crashed"
    /\ engine = "stopping"
    /\ pipe' = Append(pipe, BestmoveLine)
    /\ engine' = "idle"
    /\ UNCHANGED <<mpc, thread, args, threshold, entries, stack, children, got,
                   tree, probed, prev, files, dumped, sawBest, arg, res>>

\* the engine exits or closes its output
EngineDie ==
    /\ engine # "dead"
    /\ mpc # "crashed"
    /\ engine' = "dead"
    /\ UNCHANGED <<mpc, thread, pipe, args, threshold, entries, stack, children, got,
                   tree, probed, prev, files, dumped, sawBest, arg, res>>

(***************************************************************************)
(* LeelaInterface: launch, clear_buffer (the reader thread), stop.         *)
(***************************************************************************)
\* launch(): position startpos, go infinite, start the reader thread
Launch ==
    /\ mpc = "launch"
    /\ engine = "idle"
    /\ engine' = "searching"
    /\ thread' = "running"
    /\ sawBest' = FALSE
    /\ tree' = {}
    /\ prev' = NoPrev
    /\ mpc' = "sleep"
    /\ UNCHANGED <<pipe, args, threshold, entries, stack, children, got, probed, files,
                   dumped, arg, res>>

\* send() to an engine that is gone: the write is lost, or raises BrokenPipeError
LaunchDead ==
    /\ mpc = "launch"
    /\ engine = "dead"
    /\ \/ /\ thread' = "running"
          /\ sawBest' = FALSE
          /\ tree' = {}
          /\ prev' = NoPrev
          /\ mpc' = "sleep"
       \/ /\ mpc' = "crashed"
          /\ UNCHANGED <<thread, sawBest, tree, prev>>
    /\ UNCHANGED <<engine, pipe, args, threshold, entries, stack, children, got, probed,
                   files, dumped, arg, res>>

\* time.sleep(args.dump_interval)
Sleep ==
    /\ mpc = "sleep"
    /\ mpc' = "stop"
    /\ UNCHANGED <<thread, engine, pipe, args, threshold, entries, stack, children, got,
                   tree, probed, prev, files, dumped, sawBest, arg, res>>

\* one turn of the loop of clear_buffer that reads an info line
ReaderInfo ==
    /\ mpc # "crashed"
    /\ thread = "running"
    /\ CanRead
    /\ ~ReadLine.eof
    /\ "bestmove" \notin ReadLine.tok
    /\ pipe' = PipeAfterRead
    /\ UNCHANGED <<mpc, thread, engine, args, threshold, entries, stack, children, got,
                   tree, probed, prev, files, dumped, sawBest, arg, res>>

\* clear_buffer reads a line that contains bestmove and returns
ReaderBestmove ==
    /\ mpc # "crashed"
    /\ thread = "running"
    /\ CanRead
    /\ ~ReadLine.eof
    /\ "bestmove" \in ReadLine.tok
    /\ pipe' = PipeAfterRead
    /\ thread' = "exited"
    /\ sawBest' = TRUE
    /\ UNCHANGED <<mpc, engine, args, threshold, entries, stack, children, got,
                   tree, probed, prev, files, dumped, arg, res>>

\* clear_buffer reads the empty line and raises ValueError: the exception ends
\* the reader thread, not the main flow
ReaderEof ==
    /\ mpc # "crashed"
    /\ thread = "running"
    /\ CanRead
    /\ ReadLine.eof
    /\ thread' = "raised"
    /\ UNCHANGED <<mpc, engine, pipe, args, threshold, entries, stack, children, got,
                   tree, probed, prev, files, dumped, sawBest, arg, res>>

\* stop(): send the stop command
StopSend ==
    /\ mpc = "stop"
    /\ engine = "searching"
    /\ engine' = "stopping"
    /\ mpc' = "join"
    /\ UNCHANGED <<thread, pipe, args, threshold, entries, stack, children, got,
                   tree, probed, prev, files, dumped, sawBest, arg, res>>

StopSendDead ==
    /\ mpc = "stop"
    /\ engine = "dead"
    /\ mpc' \in {"join", "crashed"}
    /\ UNCHANGED <<thread, engine, pipe, args, threshold, entries, stack, children, got,
                   tree, probed, prev, files, dumped, sawBest, arg, res>>

\* StopJoin gone wrong: stop() returns without joining the reader thread
StopJoinNoWait ==
    /\ mpc = "join"
    /\ threshold' = IF args.multiwrite THEN 256 ELSE args.visit_threshold
    /\ mpc' = "probing"
    /\ UNCHANGED <<thread, engine, pipe, args, entries, stack, children, got,
                   tree, probed, prev, files, dumped, sawBest, arg, res>>

\* stop(): self.thread.join() returns once the reader thread has ended, by
\* return or by exception; the main loop then picks the threshold of the pass
StopJoin ==
    /\ mpc = "join"
    /\ thread \in {"exited", "raised"}
    /\ threshold' = IF args.multiwrite THEN 256 ELSE args.visit_threshold
    /\ mpc' = "probing"
    /\ UNCHANGED <<thread, engine, pipe, args, entries, stack, children, got,
                   tree, probed, prev, files, dumped, sawBest, arg, res>>

(***************************************************************************)
(* LeelaInterface.probe.                                                   *)
(***************************************************************************)
Top == stack[Len(stack)]
SetTop(f) == [stack EXCEPT ![Len(stack)] = f]

\* the child lines the stopped engine dumps for a path: those it dumped before
\* for the same path since the last search, or else any lines it still can
DumpLines(path) ==
    IF TreeKnows(path) THEN {TreeLines(path)}
    ELSE SeqsUpTo(ChildLines, MaxDumped - dumped)

Dumps(path, lines) ==
    /\ tree' = tree \cup {[path |-> path, lines |-> lines]}
    /\ dumped' = IF TreeKnows(path) THEN dumped ELSE dumped + Len(lines)

\* probe(): send dumpnode; the engine answers with the child lines and end-dump
ProbeSend ==
    /\ mpc = "probe_send"
    /\ engine = "idle"
    /\ \E lines \in DumpLines(Top.moves) :
          /\ pipe' = pipe \o lines \o <<EndDumpLine>>
          /\ Dumps(Top.moves, lines)
    /\ children' = <<>>
    /\ got' = <<>>
    /\ mpc' = "probe_read"
    /\ UNCHANGED <<thread, engine, args, threshold, entries, stack, probed, prev, files,
                   sawBest, arg, res>>

\* the engine answers with a line that lacks a token among the lines
ProbeSendBad ==
    /\ mpc = "probe_send"
    /\ engine = "idle"
    /\ \E lines \in DumpLines(Top.moves), bad \in BadLines :
          /\ pipe' = pipe \o lines \o <<bad, EndDumpLine>>
          /\ Dumps(Top.moves, lines)
    /\ children' = <<>>
    /\ got' = <<>>
    /\ mpc' = "probe_read"
    /\ UNCHANGED <<thread, engine, args, threshold, entries, stack, probed, prev, files,
                   sawBest, arg, res>>

\* the engine dies in the middle of its answer: no end-dump line
ProbeSendCut ==
    /\ mpc = "probe_send"
    /\ engine = "idle"
    /\ \E lines \in DumpLines(Top.moves) :
          /\ pipe' = pipe \o lines
          /\ Dumps(Top.moves, lines)
    /\ engine' = "dead"
    /\ children' = <<>>
    /\ got' = <<>>
    /\ mpc' = "probe_read"
    /\ UNCHANGED <<thread, args, threshold, entries, stack, probed, prev, files,
                   sawBest, arg, res>>

ProbeSendDead ==
    /\ mpc = "probe_send"
    /\ engine = "dead"
    /\ \/ mpc' = "probe_read" /\ children' = <<>> /\ got' = <<>>
       \/ mpc' = "crashed" /\ UNCHANGED <<children, got>>
    /\ UNCHANGED <<thread, engine, pipe, args, threshold, entries, stack, tree,
                   probed, prev, files, dumped, sawBest, arg, res>>

\* one turn of the loop of probe() over a line with both tokens
ProbeReadChild ==
    /\ mpc = "probe_read"
    /\ CanRead
    /\ "end-dump" \notin ReadLine.tok
    /\ {"move=", "n="} \subseteq ReadLine.tok
    /\ children' = DictSet(children, ReadLine.move, ReadLine.n)
    /\ got' = Append(got, ReadLine)
    /\ pipe' = PipeAfterRead
    /\ UNCHANGED <<mpc, thread, engine, args, threshold, entries, stack, tree,
                   probed, prev, files, dumped, sawBest, arg, res>>

\* ProbeReadRaise gone wrong: a line that lacks a token is passed over
ProbeReadSkips ==
    /\ mpc = "probe_read"
    /\ pipe # <<>>
    /\ "end-dump" \notin ReadLine.tok
    /\ ~({"move=", "n="} \subseteq ReadLine.tok)
    /\ pipe' = PipeAfterRead
    /\ got' = Append(got, ReadLine)
    /\ UNCHANGED <<mpc, thread, engine, args, threshold, entries, stack, children, tree,
                   probed, prev, files, dumped, sawBest, arg, res>>

\* the line has no end-dump and lacks move= or n= (the empty line at end of
\* stream too): re.search gives None, probe() prints the line and raises
ProbeReadRaise ==
    /\ mpc = "probe_read"
    /\ CanRead
    /\ "end-dump" \notin ReadLine.tok
    /\ ~({"move=", "n="} \subseteq ReadLine.tok)
    /\ pipe' = PipeAfterRead
    /\ got' = Append(got, ReadLine)
    /\ mpc' = "crashed"
    /\ UNCHANGED <<thread, engine, args, threshold, entries, stack, children, tree,
                   probed, prev, files, dumped, sawBest, arg, res>>

\* the line contains end-dump: probe() returns children to explore_tree
ProbeReadEnd ==
    /\ mpc = "probe_read"
    /\ CanRead
    /\ "end-dump" \in ReadLine.tok
    /\ pipe' = PipeAfterRead
    /\ got' = Append(got, ReadLine)
    /\ stack' = SetTop([Top EXCEPT !.children = children])
    /\ probed' = Append(probed, [moves |-> Top.moves, children |-> children])
    /\ mpc' = "explore_body"
    /\ UNCHANGED <<thread, engine, args, threshold, entries, children, tree,
                   prev, files, dumped, sawBest, arg, res>>

(***************************************************************************)
(* explore_tree.                                                           *)
(***************************************************************************)
Frame(board, moves) == [board |-> board, moves |-> moves, children |-> <<>>, i |-> 1]

\* the return of the innermost call: to the loop of its caller, or to __main__
Return ==
    /\ stack' = SubSeq(stack, 1, Len(stack) - 1)
    /\ mpc' = IF Len(stack) = 1 THEN "pass_done" ELSE "explore_loop"

\* BeginPass gone wrong: the pass starts with the records of the pass before
BeginPassKeepsEntries ==
    /\ mpc = "probing"
    /\ probed' = <<>>
    /\ stack' = <<Frame(StartBoard, <<>>)>>
    /\ mpc' = "probe_send"
    /\ UNCHANGED <<thread, engine, pipe, args, threshold, entries, children, got, tree, prev,
                   files, dumped, sawBest, arg, res>>

\* print "Probing tree.", entries = [], call explore_tree on chess.Board()
BeginPass ==
    /\ mpc = "probing"
    /\ entries' = <<>>
    /\ probed' = <<>>
    /\ stack' = <<Frame(StartBoard, <<>>)>>
    /\ mpc' = "probe_send"
    /\ UNCHANGED <<thread, engine, pipe, args, threshold, children, got, tree, prev, files,
                   dumped, sawBest, arg, res>>

\* ExploreEmpty gone wrong: without the early return, max() of the empty dict
\* raises ValueError
ExploreEmptyRaises ==
    /\ mpc = "explore_body"
    /\ Top.children = <<>>
    /\ mpc' = "crashed"
    /\ UNCHANGED <<thread, engine, pipe, args, threshold, entries, stack, children, got,
                   tree, probed, prev, files, dumped, sawBest, arg, res>>

\* if not children: return
ExploreEmpty ==
    /\ mpc = "explore_body"
    /\ Top.children = <<>>
    /\ Return
    /\ UNCHANGED <<thread, engine, pipe, args, threshold, entries, children, got, tree,
                   probed, prev, files, dumped, sawBest, arg, res>>

\* best_move = max(...); entries.append(make_entry(board, best_move, weight=...))
ExploreAppend ==
    /\ mpc = "explore_body"
    /\ Top.children # <<>>
    /\ LET best_move == BestMove(Top.children)
       IN  entries' = Append(entries,
               make_entry(Top.board, best_move, Weight(DictGet(Top.children, best_move)), 0))
    /\ mpc' = "explore_loop"
    /\ UNCHANGED <<thread, engine, pipe, args, threshold, stack, children, got, tree,
                   probed, prev, files, dumped, sawBest, arg, res>>

\* Pruned with the comparison off by one: a move of exactly the threshold is dropped
PrunedAtThreshold(visits, visit_threshold) == visits <= visit_threshold

\* if visits < visit_threshold: continue
Pruned(visits, visit_threshold) == visits < visit_threshold

\* for (move, visits) in children.items(): a move below the threshold is passed over
ExploreSkip ==
    /\ mpc = "explore_loop"
    /\ Top.i <= Len(Top.children)
    /\ Pruned(Top.children[Top.i][2], threshold)
    /\ stack' = SetTop([Top EXCEPT !.i = Top.i + 1])
    /\ UNCHANGED <<mpc, thread, engine, pipe, args, threshold, entries, children, got, tree,
                   probed, prev, files, dumped, sawBest, arg, res>>

\* ExploreRecurse gone wrong: the move is pushed on the caller's own board, not
\* on a copy of it
ExploreRecurseNoCopy ==
    /\ mpc = "explore_loop"
    /\ Top.i <= Len(Top.children)
    /\ ~Pruned(Top.children[Top.i][2], threshold)
    /\ LET move == Top.children[Top.i][1]
       IN  /\ IsLegal(Top.board, move)
           /\ stack' = Append(SetTop([Top EXCEPT !.i = Top.i + 1,
                                                 !.board = Push(Top.board, move)]),
                              Frame(Push(Top.board, move), Append(Top.moves, move)))
    /\ mpc' = "probe_send"
    /\ UNCHANGED <<thread, engine, pipe, args, threshold, entries, children, got, tree,
                   probed, prev, files, dumped, sawBest, arg, res>>

\* ExploreRecurse gone wrong: the loop over the children does not move on to
\* the next child
ExploreRecurseAgain ==
    /\ mpc = "explore_loop"
    /\ Top.i <= Len(Top.children)
    /\ ~Pruned(Top.children[Top.i][2], threshold)
    /\ LET move == Top.children[Top.i][1]
       IN  /\ IsLegal(Top.board, move)
           /\ stack' = Append(stack, Frame(Push(Top.board, move), Append(Top.moves, move)))
    /\ mpc' = "probe_send"
    /\ UNCHANGED <<thread, engine, pipe, args, threshold, entries, children, got, tree,
                   probed, prev, files, dumped, sawBest, arg, res>>

\* sub_board = board.copy(); assert is_legal; push; explore_tree(..., moves + [move], ...)
ExploreRecurse ==
    /\ mpc = "explore_loop"
    /\ Top.i <= Len(Top.children)
    /\ ~Pruned(Top.children[Top.i][2], threshold)
    /\ LET move == Top.children[Top.i][1]
       IN  /\ IsLegal(Top.board, move)
           /\ stack' = Append(SetTop([Top EXCEPT !.i = Top.i + 1]),
                              Frame(Push(Top.board, move), Append(Top.moves, move)))
    /\ mpc' = "probe_send"
    /\ UNCHANGED <<thread, engine, pipe, args, threshold, entries, children, got, tree,
                   probed, prev, files, dumped, sawBest, arg, res>>

\* ExploreAssertFails gone wrong: the records gathered so far are written to the
\* output file before the run ends
ExploreAssertFailsWrites ==
    /\ mpc = "explore_loop"
    /\ Top.i <= Len(Top.children)
    /\ ~Pruned(Top.children[Top.i][2], threshold)
    /\ ~IsLegal(Top.board, Top.children[Top.i][1])
    /\ files' = {f \in files : f.name # 0}
                    \cup {[name |-> 0, data |-> write_polyglot_bin(entries)]}
    /\ mpc' = "crashed"
    /\ UNCHANGED <<thread, engine, pipe, args, threshold, entries, stack, children, got, tree,
                   probed, prev, dumped, sawBest, arg, res>>

\* the assertion fails: AssertionError ends the run
ExploreAssertFails ==
    /\ mpc = "explore_loop"
    /\ Top.i <= Len(Top.children)
    /\ ~Pruned(Top.children[Top.i][2], threshold)
    /\ ~IsLegal(Top.board, Top.children[Top.i][1])
    /\ mpc' = "crashed"
    /\ UNCHANGED <<thread, engine, pipe, args, threshold, entries, stack, children, got, tree,
                   probed, prev, files, dumped, sawBest, arg, res>>

\* the loop over children.items() is over
ExploreReturn ==
    /\ mpc = "explore_loop"
    /\ Top.i > Len(Top.children)
    /\ Return
    /\ UNCHANGED <<thread, engine, pipe, args, threshold, entries, children, got, tree,
                   probed, prev, files, dumped, sawBest, arg, res>>

(***************************************************************************)
(* The __main__ loop after a pass.                                         *)
(***************************************************************************)
\* open(name, "wb") and write_polyglot_bin: the file is replaced
WriteFile(name) ==
    files' = {f \in files : f.name # name}
                \cup {[name |-> name, data |-> write_polyglot_bin(entries)]}

\* without --multiwrite: write args.output, then the next cycle
WriteSingle ==
    /\ mpc = "pass_done"
    /\ ~args.multiwrite
    /\ WriteFile(0)
    /\ mpc' = "launch"
    /\ UNCHANGED <<thread, engine, pipe, args, threshold, entries, stack, children, got, tree,
                   probed, prev, dumped, sawBest, arg, res>>

\* --multiwrite, more than 2 entries: write the file of this threshold, double it
WriteMulti ==
    /\ mpc = "pass_done"
    /\ args.multiwrite
    /\ Len(entries) > 2
    /\ WriteFile(threshold)
    /\ prev' = [threshold |-> threshold, probed |-> probed, entries |-> entries]
    /\ threshold' = threshold * 2
    /\ mpc' = "probing"
    /\ UNCHANGED <<thread, engine, pipe, args, entries, stack, children, got, tree,
                   probed, dumped, sawBest, arg, res>>

\* DoneWriting gone wrong: the file of the last threshold is written all the same
DoneWritingWrites ==
    /\ mpc = "pass_done"
    /\ args.multiwrite
    /\ ~(Len(entries) > 2)
    /\ WriteFile(threshold)
    /\ mpc' = "launch"
    /\ UNCHANGED <<thread, engine, pipe, args, threshold, entries, stack, children, got, tree,
                   probed, prev, dumped, sawBest, arg, res>>

\* --multiwrite, 2 entries or fewer: donewriting = True, then the next cycle
DoneWriting ==
    /\ mpc = "pass_done"
    /\ args.multiwrite
    /\ ~(Len(entries) > 2)
    /\ mpc' = "launch"
    /\ UNCHANGED <<thread, engine, pipe, args, threshold, entries, stack, children, got, tree,
                   probed, prev, files, dumped, sawBest, arg, res>>

(***************************************************************************)
(* The program: Spec.                                                      *)
(***************************************************************************)
Init ==
    /\ mpc = "launch" /\ thread = "none" /\ engine = "idle" /\ pipe = <<>>
    /\ args \in [multiwrite : BOOLEAN, visit_threshold : Thresholds]
    /\ threshold = 0 /\ entries = <<>> /\ stack = <<>> /\ children = <<>> /\ got = <<>>
    /\ tree = {} /\ probed = <<>> /\ prev = NoPrev /\ files = {} /\ dumped = 0
    /\ sawBest = FALSE
    /\ arg = <<>> /\ res = <<>>

Next ==
    \/ EngineInfo \/ EngineBestmove \/ EngineDie
    \/ Launch \/ LaunchDead \/ Sleep
    \/ ReaderInfo \/ ReaderBestmove \/ ReaderEof
    \/ StopSend \/ StopSendDead \/ StopJoin
    \/ BeginPass
    \/ ProbeSend \/ ProbeSendBad \/ ProbeSendCut \/ ProbeSendDead
    \/ ProbeReadChild \/ ProbeReadRaise \/ ProbeReadEnd
    \/ ExploreEmpty \/ ExploreAppend \/ ExploreSkip \/ ExploreRecurse
    \/ ExploreAssertFails \/ ExploreReturn
    \/ WriteSingle \/ WriteMulti \/ DoneWriting

Spec == Init /\ [][Next]_vars

(***************************************************************************)
(* One cycle after its search, with an engine that answers every probe:    *)
(* SpecPass.  The engine has answered the stop with bestmove, the reader   *)
(* thread has returned, stop() is in join(); the steps are those of the    *)
(* main flow up to the next launch().  No step of the main flow that can   *)
(* be taken is put off for ever.                                           *)
(***************************************************************************)
InitPass ==
    /\ mpc = "join" /\ thread = "exited" /\ engine = "idle" /\ pipe = <<>>
    /\ args \in [multiwrite : BOOLEAN, visit_threshold : Thresholds]
    /\ threshold = 0 /\ entries = <<>> /\ stack = <<>> /\ children = <<>> /\ got = <<>>
    /\ tree = {} /\ probed = <<>> /\ prev = NoPrev /\ files = {} /\ dumped = 0
    /\ sawBest = TRUE
    /\ arg = <<>> /\ res = <<>>

NextPass ==
    \/ StopJoin
    \/ BeginPass
    \/ ProbeSend \/ ProbeReadChild \/ ProbeReadEnd
    \/ ExploreEmpty \/ ExploreAppend \/ ExploreSkip \/ ExploreRecurse
    \/ ExploreAssertFails \/ ExploreReturn
    \/ WriteSingle \/ WriteMulti \/ DoneWriting

SpecPass == InitPass /\ [][NextPass]_vars /\ WF_vars(NextPass)

(***************************************************************************)
(* LeelaInterface under any caller: SpecApi.  The caller is one thread; it *)
(* calls launch() when no search runs and stop() on a running search, as   *)
(* __main__ does, and it may call probe(moves) whenever it is between two  *)
(* calls, also while a search runs.  mpc = "api": the caller is between    *)
(* two calls.                                                              *)
(***************************************************************************)
ApiPaths == {<<>>, <<Nf3>>}

\* the caller's last call has returned; the locals of the call are gone
ApiReturn ==
    /\ mpc \in {"sleep", "probing", "explore_body"}
    /\ mpc' = "api"
    /\ stack' = <<>>
    /\ children' = <<>>
    /\ got' = <<>>
    /\ probed' = <<>>
    /\ UNCHANGED <<thread, engine, pipe, args, threshold, entries,
                   tree, prev, files, dumped, sawBest, arg, res>>

\* the caller calls launch()
ApiCallLaunch ==
    /\ mpc = "api"
    /\ thread # "running"
    /\ engine \in {"idle", "dead"}
    /\ mpc' = "launch"
    /\ UNCHANGED <<thread, engine, pipe, args, threshold, entries, stack, children, got,
                   tree, probed, prev, files, dumped, sawBest, arg, res>>

\* the caller calls stop()
ApiCallStop ==
    /\ mpc = "api"
    /\ thread # "none"
    /\ engine \in {"searching", "dead"}
    /\ mpc' = "stop"
    /\ UNCHANGED <<thread, engine, pipe, args, threshold, entries, stack, children, got,
                   tree, probed, prev, files, dumped, sawBest, arg, res>>

\* the caller calls probe(moves): probe() tests nothing before its send
ApiCallProbe ==
    /\ mpc = "api"
    /\ \E moves \in ApiPaths :
          stack' = <<Frame(IF moves = <<>> THEN StartBoard ELSE Push(StartBoard, moves[1]),
                           moves)>>
    /\ probed' = <<>>
    /\ mpc' = "probe_send"
    /\ UNCHANGED <<thread, engine, pipe, args, threshold, entries, children, got,
                   tree, prev, files, dumped, sawBest, arg, res>>

\* probe() during a search: dumpnode is written to the searching engine, which
\* passes it over or answers it among its info lines
ProbeSendSearching ==
    /\ mpc = "probe_send"
    /\ engine \in {"searching", "stopping"}
    /\ \/ UNCHANGED <<pipe, tree, dumped>>
       \/ /\ Len(pipe) < MaxPipe
          /\ \E lines \in DumpLines(Top.moves) :
                /\ pipe' = pipe \o lines \o <<EndDumpLine>>
                /\ Dumps(Top.moves, lines)
    /\ children' = <<>>
    /\ got' = <<>>
    /\ mpc' = "probe_read"
    /\ UNCHANGED <<thread, engine, args, threshold, entries, stack, probed, prev, files,
                   sawBest, arg, res>>

NextApi ==
    \/ EngineInfo \/ EngineBestmove \/ EngineDie
    \/ ApiCallLaunch \/ Launch \/ LaunchDead
    \/ ReaderInfo \/ ReaderBestmove \/ ReaderEof
    \/ ApiCallStop \/ StopSend \/ StopSendDead \/ StopJoin
    \/ ApiCallProbe \/ ProbeSend \/ ProbeSendSearching \/ ProbeSendDead
    \/ ProbeReadChild \/ ProbeReadRaise \/ ProbeReadEnd
    \/ ApiReturn

\* LeelaInterface(command) is constructed; the caller's first call is launch()
InitApi == Init /\ args = [multiwrite |-> FALSE, visit_threshold |-> 10]

SpecApi == InitApi /\ [][NextApi]_vars

(***************************************************************************)
(* Notions the properties are stated in.                                   *)
(***************************************************************************)
Last(seq) == seq[Len(seq)]
Front(seq) == SubSeq(seq, 1, Len(seq) - 1)

\* the position a path of moves leads to from the start position
RECURSIVE BoardAt(_)
BoardAt(path) == IF path = <<>> THEN StartBoard ELSE Push(BoardAt(Front(path)), Last(path))

\* `threshold` is the threshold of the pass that `probed` and `entries` tell of
\* (between two passes of --multiwrite the threshold is already the next one)
InPassHistory == mpc # "probing"

HasChildren(r) == r.children # <<>>
\* the probes of the pass that returned a non-empty mapping, in order
NonEmptyProbed == SelectSeq(probed, HasChildren)

\* the probe of `path` returned, and reported `move` with at least `t` visits
ProbedWith(path, move, t) ==
    \E j \in 1 .. Len(probed) :
        /\ probed[j].moves = path
        /\ \E k \in 1 .. Len(probed[j].children) :
              probed[j].children[k][1] = move /\ probed[j].children[k][2] >= t

IsProperPrefix(p, q) == Len(p) < Len(q) /\ SubSeq(q, 1, Len(p)) = p

\* the four castling moves as the engine names them: king e1/e8 to g or c file
IsStandardCastle(board, move) ==
    /\ IsCastling(board, move)
    /\ Mover(move) = board.turn
    /\ SquareFile(move.from_square) = 4
    /\ SquareRank(move.from_square) \in {0, 7}
    /\ SquareRank(move.to_square) = SquareRank(move.from_square)
    /\ SquareFile(move.to_square) \in {2, 6}
    /\ move.promotion = None

\* the start square of the rook that castles with the king going to to_square
RookStart(to_square) ==
    Square(IF SquareFile(to_square) = 6 THEN 7 ELSE 0, SquareRank(to_square))

(***************************************************************************)
(* C1 (move_to_polyglot_int, SpecEnc): the code of a castling move has the *)
(* king's start square as origin and the start square of the castling rook *)
(* (h1, a1, h8, a8) as destination, not the square the king lands on.      *)
(* The code does not do this: C1Claim is violated.                         *)
(***************************************************************************)
C1Claim ==
    (res # <<>> /\ IsStandardCastle(arg.board, arg.move)) =>
        /\ res[1] % 64 = RookStart(arg.move.to_square)
        /\ (res[1] \div 64) % 64 = arg.move.from_square

(***************************************************************************)
(* C2 (explore_tree, Spec): a child move is recursed into exactly when its *)
(* visit count in the parent's probe result is >= the threshold.  Every    *)
(* move on a probed path had >= threshold visits in the probe result of    *)
(* the path before it, and when the pass is over every move that had       *)
(* >= threshold visits in a probe result has had its path probed.          *)
(***************************************************************************)
C2Theorem ==
    InPassHistory =>
        /\ \A i \in 1 .. Len(probed) : \A n \in 1 .. Len(probed[i].moves) :
              ProbedWith(SubSeq(probed[i].moves, 1, n - 1), probed[i].moves[n], threshold)
        /\ mpc = "pass_done" =>
              \A j \in 1 .. Len(probed) : \A k \in 1 .. Len(probed[j].children) :
                  probed[j].children[k][2] >= threshold =>
                      \E i \in 1 .. Len(probed) :
                          probed[i].moves = Append(probed[j].moves, probed[j].children[k][1])

\* a pass is over in which the root reported a move above and a move below the
\* threshold, and the path of the one above was probed
C2Witness ==
    /\ mpc = "pass_done"
    /\ Len(probed) >= 2
    /\ probed[1].moves = <<>>
    /\ \E k \in 1 .. Len(probed[1].children) : probed[1].children[k][2] >= threshold
    /\ \E k \in 1 .. Len(probed[1].children) : probed[1].children[k][2] < threshold

\* the move entry i was made for has index j in the mapping of its position
RecordedAt(i, j) ==
    /\ i <= Len(NonEmptyProbed)
    /\ j <= Len(NonEmptyProbed[i].children)
    /\ entries[i].raw_move =
          move_to_polyglot_int(BoardAt(NonEmptyProbed[i].moves), NonEmptyProbed[i].children[j][1])

(***************************************************************************)
(* C3 as claimed (explore_tree, Spec): no entry is appended for a move     *)
(* whose visit count in the probe result of its position is below the      *)
(* threshold.  Violated: the best move of a probed position is recorded    *)
(* whatever its count.                                                     *)
(***************************************************************************)
C3Claim ==
    InPassHistory =>
        \A i \in 1 .. Min(Len(entries), Len(NonEmptyProbed)) :
            \A j \in 1 .. Len(NonEmptyProbed[i].children) :
                RecordedAt(i, j) => NonEmptyProbed[i].children[j][2] >= threshold

(***************************************************************************)
(* C3 as amended: an entry is appended for a move below the threshold only *)
(* when that move is the best move of its position, so that every move of  *)
(* that position is below the threshold; and the position of every entry   *)
(* was reached by moves that had >= threshold visits.                      *)
(***************************************************************************)
C3Theorem ==
    InPassHistory =>
        \A i \in 1 .. Len(entries) :
            /\ i <= Len(NonEmptyProbed)
            /\ \A n \in 1 .. Len(NonEmptyProbed[i].moves) :
                  ProbedWith(SubSeq(NonEmptyProbed[i].moves, 1, n - 1),
                             NonEmptyProbed[i].moves[n], threshold)
            /\ \A j \in 1 .. Len(NonEmptyProbed[i].children) :
                  (RecordedAt(i, j) /\ NonEmptyProbed[i].children[j][2] < threshold) =>
                      \A k \in 1 .. Len(NonEmptyProbed[i].children) :
                          NonEmptyProbed[i].children[k][2] <= NonEmptyProbed[i].children[j][2]

\* an entry stands for a move that had fewer visits than the threshold
C3Witness ==
    /\ mpc = "pass_done"
    /\ \E i \in 1 .. Len(entries) : \E j \in 1 .. Len(NonEmptyProbed[i].children) :
          RecordedAt(i, j) /\ NonEmptyProbed[i].children[j][2] < threshold

\* min(65535, visits // 256), said without the operators of the model
IsClampedWeight(w, visits) ==
    /\ w \in 0 .. 65535
    /\ visits >= 256 * 65535 => w = 65535
    /\ visits < 256 * 65535 => (256 * w <= visits /\ visits < 256 * (w + 1))

(***************************************************************************)
(* C4 (explore_tree, Spec): every probe that returned a non-empty mapping  *)
(* has exactly one entry, in the order of the probes; the entry is for the *)
(* first move, in the order of the mapping, among those of the largest     *)
(* visit count, with the key of the probed position, the weight            *)
(* min(65535, visits // 256) and learn 0.                                  *)
(***************************************************************************)
C4Theorem ==
    InPassHistory =>
        /\ Len(entries) = Len(NonEmptyProbed)
                - (IF mpc = "explore_body" /\ Top.children # <<>> THEN 1 ELSE 0)
        /\ \A i \in 1 .. Len(entries) :
              LET d == NonEmptyProbed[i].children
                  board == BoardAt(NonEmptyProbed[i].moves)
              IN  \E j \in 1 .. Len(d) :
                      /\ \A k \in 1 .. Len(d) : d[k][2] <= d[j][2]
                      /\ \A k \in 1 .. j - 1 : d[k][2] < d[j][2]
                      /\ entries[i].key = ZobristHash(board)
                      /\ entries[i].raw_move = move_to_polyglot_int(board, d[j][1])
                      /\ IsClampedWeight(entries[i].weight, d[j][2])
                      /\ entries[i].learn = 0

\* a pass is over that made two entries, one of them at a position where two
\* moves tie for the largest visit count
C4Witness ==
    /\ mpc = "pass_done"
    /\ Len(entries) >= 2
    /\ \E i \in 1 .. Len(NonEmptyProbed) :
          LET d == NonEmptyProbed[i].children
          IN  Len(d) >= 2 /\ d[1][2] = d[2][2] /\ d[1][2] = 1000

(***************************************************************************)
(* C5 (explore_tree, Spec): when a probe returns the empty mapping, the    *)
(* call returns at once: it appends no entry, the run goes on (no error),  *)
(* and no path that extends the probed one is ever probed.                 *)
(***************************************************************************)
C5Theorem ==
    /\ [](\A i \in 1 .. Len(probed) : \A j \in 1 .. Len(probed) :
              probed[i].children = <<>> => ~IsProperPrefix(probed[i].moves, probed[j].moves))
    /\ [][(mpc = "explore_body" /\ Top.children = <<>> /\ mpc' # mpc) =>
              /\ entries' = entries
              /\ probed' = probed
              /\ stack' = Front(stack)
              /\ mpc' \in {"explore_loop", "pass_done"}]_vars

\* a pass is over in which the probe of a position below the root came back empty
C5Witness ==
    /\ mpc = "pass_done"
    /\ \E i \in 1 .. Len(probed) : probed[i].children = <<>> /\ probed[i].moves # <<>>

(***************************************************************************)
(* C6 (the weight of an entry, SpecWeight): for every visit count v >= 0   *)
(* the weight of the entry is min(65535, v // 256): it lies in 0..65535    *)
(* and is 65535 from v = 256*65535 on, never wrapped around.               *)
(***************************************************************************)
C6Theorem == res # <<>> => IsClampedWeight(res[1].weight, arg)

\* the entry of a visit count beyond the boundary 256*65535 + 255
C6Witness == res # <<>> /\ arg > 256 * 65535 + 255 /\ res[1].weight = 65535

\* the entries a book of 16-byte big-endian records reads back as
RECURSIVE BytesValue(_)
BytesValue(bytes) == IF bytes = <<>> THEN 0 ELSE 256 * BytesValue(Front(bytes)) + Last(bytes)
RECURSIVE ReadBook(_)
ReadBook(bytes) ==
    IF Len(bytes) < 16 THEN <<>>
    ELSE <<[key |-> BytesValue(SubSeq(bytes, 1, 8)),
            raw_move |-> BytesValue(SubSeq(bytes, 9, 10)),
            weight |-> BytesValue(SubSeq(bytes, 11, 12)),
            learn |-> BytesValue(SubSeq(bytes, 13, 16))]>>
         \o ReadBook(SubSeq(bytes, 17, Len(bytes)))

WithKey(es, k) == LET HasKey(e) == e.key = k IN SelectSeq(es, HasKey)

(***************************************************************************)
(* C7 (write_polyglot_bin, SpecSort): the book written holds exactly the   *)
(* entries given, in the order of their stable sort by key: as many        *)
(* records as entries, keys non-decreasing, and for every key the records  *)
(* of that key are the entries of that key in the order they were given    *)
(* (nothing dropped, merged or deduplicated).                              *)
(***************************************************************************)
C7Theorem ==
    res # <<>> =>
        LET out == ReadBook(res[1])
        IN  /\ Len(res[1]) = 16 * Len(arg)
            /\ Len(out) = Len(arg)
            /\ \A i \in 1 .. Len(out) - 1 : out[i].key <= out[i + 1].key
            /\ \A i \in 1 .. Len(arg) : WithKey(out, arg[i].key) = WithKey(arg, arg[i].key)

\* a book written from entries out of order, two of them different entries
\* with the same key
C7Witness ==
    /\ res # <<>>
    /\ Len(arg) >= 3
    /\ \E i \in 1 .. Len(arg) - 1 : arg[i].key > arg[i + 1].key
    /\ \E i \in 1 .. Len(arg) : \E j \in 1 .. Len(arg) :
          i < j /\ arg[i].key = arg[j].key /\ arg[i] # arg[j]

\* a dump line that yields a move and a visit count
IsChildLine(l) == ~l.eof /\ "end-dump" \notin l.tok /\ {"move=", "n="} \subseteq l.tok

\* d maps exactly the moves of the lines, each to the count of its last line
IsMappingOf(d, lines) ==
    /\ {d[k][1] : k \in 1 .. Len(d)} = {lines[i].move : i \in 1 .. Len(lines)}
    /\ \A k \in 1 .. Len(d) : \A h \in 1 .. Len(d) : d[k][1] = d[h][1] => k = h
    /\ \A k \in 1 .. Len(d) :
          \E i \in 1 .. Len(lines) :
              /\ lines[i].move = d[k][1] /\ lines[i].n = d[k][2]
              /\ \A h \in i + 1 .. Len(lines) : lines[h].move # d[k][1]

(***************************************************************************)
(* C8 (LeelaInterface.probe, Spec): probe returns a mapping only after it  *)
(* has read a line with end-dump, every line before it had both move= and  *)
(* n=, and the mapping is that of exactly those lines.  A line that lacks  *)
(* a token, or the empty line of a stream that ended, makes probe raise:   *)
(* after such a line the run has ended, the line was not passed over and   *)
(* no mapping was returned for that probe.                                 *)
(***************************************************************************)
C8Theorem ==
    /\ \A i \in 1 .. Len(got) - 1 : IsChildLine(got[i])
    /\ mpc = "explore_body" =>
          /\ got # <<>> /\ "end-dump" \in Last(got).tok
          /\ IsMappingOf(Top.children, Front(got))
          /\ probed # <<>> /\ Last(probed) = [moves |-> Top.moves, children |-> Top.children]
    /\ got # <<>> =>
          IF "end-dump" \in Last(got).tok THEN mpc # "probe_read"
          ELSE IF IsChildLine(Last(got)) THEN mpc = "probe_read"
          ELSE /\ mpc = "crashed"
               /\ stack # <<>>
               /\ \A i \in 1 .. Len(probed) : probed[i].moves # Top.moves

\* probe has raised at the end of a stream that gave a child line and no end-dump
C8Witness ==
    /\ mpc = "crashed"
    /\ Len(got) >= 2
    /\ Last(got).eof
    /\ children # <<>>

\* stop() has returned and the next launch() has not yet been called
StopReturned ==
    mpc \in {"probing", "probe_send", "probe_read", "explore_body", "explore_loop", "pass_done"}

(***************************************************************************)
(* C9 (clear_buffer / stop, Spec): whenever stop() has returned, the       *)
(* reader of that search has consumed a line with bestmove.  Violated:     *)
(* join() also returns when the reader has ended with its ValueError.      *)
(***************************************************************************)
C9Claim == StopReturned => sawBest

(***************************************************************************)
(* C10 (clear_buffer / stop / __main__, Spec): when the reader has met the *)
(* end of the engine's output before any bestmove, stop() does not return  *)
(* as a completed stop, and the main flow does not go on to probe.         *)
(* Violated: the reader's exception ends only the reader thread.           *)
(***************************************************************************)
C10Claim == thread = "raised" => ~StopReturned

(***************************************************************************)
(* C12 (launch / clear_buffer / stop, Spec): over any number of cycles a   *)
(* reader thread is alive only between launch() and the return of the      *)
(* matching stop(); a thread is started only by launch() and only when no  *)
(* other one is alive, so there is at most one; and the main flow reads    *)
(* the engine's output (the reads of probe) only while no reader thread is *)
(* alive.                                                                  *)
(***************************************************************************)
ReaderAlive == thread = "running"

C12Theorem ==
    /\ [](ReaderAlive => mpc \in {"sleep", "stop", "join", "crashed"})
    /\ [](mpc \in {"probe_send", "probe_read"} => ~ReaderAlive)
    /\ [][(thread' = "running" /\ thread # thread') =>
              (mpc = "launch" /\ mpc' = "sleep" /\ ~ReaderAlive)]_vars
    /\ [][(mpc = "probe_read" /\ pipe' # pipe) => ~ReaderAlive]_vars

\* in a second cycle the main flow waits in stop() for the reader thread, which
\* is still alive, after probes of the first cycle have read the stream
C12Witness ==
    /\ mpc = "join"
    /\ ReaderAlive
    /\ files # {}
    /\ got # <<>>

\* every move with enough visits reported in the pass has had its path probed,
\* and every non-empty probe result has its record
PassComplete ==
    /\ stack = <<>>
    /\ Len(entries) = Len(NonEmptyProbed)
    /\ \A j \in 1 .. Len(probed) : \A k \in 1 .. Len(probed[j].children) :
          probed[j].children[k][2] >= threshold =>
              \E i \in 1 .. Len(probed) :
                  probed[i].moves = Append(probed[j].moves, probed[j].children[k][1])

(***************************************************************************)
(* C13 (__main__, explore_tree, Spec): a book file is written only when    *)
(* the pass that made its records has returned normally, and then holds    *)
(* the records of that whole pass; a step that ends the run on a fault     *)
(* (malformed line, lost engine, failed assertion) creates and changes no  *)
(* file, and after it no file changes any more.                            *)
(***************************************************************************)
C13Theorem ==
    /\ [][files' # files =>
              /\ mpc = "pass_done"
              /\ PassComplete
              /\ \E f \in files' \ files :
                    /\ f.data = write_polyglot_bin(entries)
                    /\ files' = {g \in files : g.name # f.name} \cup {f}]_vars
    /\ [][(mpc' = "crashed" \/ mpc = "crashed") => files' = files]_vars

\* the run ended on a fault in the middle of a pass that had made records; the
\* file of the cycle before is there and does not hold these records
C13Witness ==
    /\ mpc = "crashed"
    /\ stack # <<>>
    /\ entries # <<>>
    /\ \E f \in files : f.data # write_polyglot_bin(entries)

(***************************************************************************)
(* C14 as claimed (explore_tree, Spec): every record appended carries a    *)
(* move that is legal in the position whose hash is the record's key, for  *)
(* every probe result and threshold.  Violated: the best move is appended  *)
(* before, and without, the legality assertion, which covers only the      *)
(* moves that are recursed into.                                           *)
(***************************************************************************)
C14Claim ==
    InPassHistory =>
        \A i \in 1 .. Min(Len(entries), Len(NonEmptyProbed)) :
            LET board == BoardAt(NonEmptyProbed[i].moves)
            IN  /\ entries[i].key = ZobristHash(board)
                /\ \E move \in EngineMoves :
                      /\ IsLegal(board, move)
                      /\ entries[i].raw_move = move_to_polyglot_int(board, move)

(***************************************************************************)
(* C19 (explore_tree, probe, Spec): in every call of explore_tree the      *)
(* board is the start position with the moves of the path applied in       *)
(* order, and the dumpnode of the call names that path; a recursive call   *)
(* gets a copy, so the board and path of every caller stay what they were  *)
(* and the next sibling starts from the same parent position; the key of   *)
(* each record is the hash of the position its probe result belongs to.    *)
(***************************************************************************)
C19Theorem ==
    /\ \A k \in 1 .. Len(stack) : stack[k].board = BoardAt(stack[k].moves)
    /\ stack # <<>> => stack[1].moves = <<>>
    /\ \A k \in 1 .. Len(stack) - 1 :
          /\ stack[k].i > 1
          /\ stack[k + 1].moves =
                Append(stack[k].moves, stack[k].children[stack[k].i - 1][1])
          /\ stack[k + 1].board = Push(stack[k].board, Last(stack[k + 1].moves))
    /\ (mpc = "probe_read" /\ engine # "dead") => TreeKnows(Top.moves)
    /\ stack # <<>> => \A j \in 1 .. Len(probed) : TreeKnows(probed[j].moves)
    /\ InPassHistory =>
          \A i \in 1 .. Min(Len(entries), Len(NonEmptyProbed)) :
              entries[i].key = ZobristHash(BoardAt(NonEmptyProbed[i].moves))

\* the call for the second child of the root has its probe result, after the
\* call for the first child returned
C19Witness ==
    /\ mpc = "explore_body"
    /\ Len(stack) = 2
    /\ stack[1].i = 3
    /\ Len(entries) >= 1
    /\ Top.board = Push(StartBoard, stack[1].children[2][1])

\* a is b with some of its elements left out
RECURSIVE IsSubsequence(_, _)
IsSubsequence(a, b) ==
    IF a = <<>> THEN TRUE
    ELSE IF b = <<>> THEN FALSE
    ELSE IF a[1] = b[1] THEN IsSubsequence(Tail(a), Tail(b))
    ELSE IsSubsequence(a, Tail(b))

Paths(probes) == {probes[j].moves : j \in 1 .. Len(probes)}

(***************************************************************************)
(* C20 (explore_tree, __main__ multiwrite, Spec): on one engine tree, a    *)
(* pass with threshold t2 after a pass with threshold t1 <= t2 probes only *)
(* paths the t1 pass probed, and its records are a subsequence of the      *)
(* records of the t1 pass (same key, move, weight); the root record is the *)
(* same in both.                                                           *)
(***************************************************************************)
C20Theorem ==
    prev # NoPrev =>
        /\ prev.threshold <= threshold
        /\ Paths(probed) \subseteq Paths(prev.probed)
        /\ \A j \in 1 .. Len(probed) : \E i \in 1 .. Len(prev.probed) :
              prev.probed[i] = probed[j]
        /\ IsSubsequence(entries, prev.entries)
        /\ (entries # <<>> /\ prev.entries # <<>>) => entries[1] = prev.entries[1]
        /\ (mpc = "pass_done" /\ prev.entries # <<>>) => entries # <<>>

\* a pass of the doubled threshold is over on the tree of the pass before: it
\* probed fewer paths and made fewer records
C20Witness ==
    /\ mpc = "pass_done"
    /\ prev # NoPrev
    /\ prev.threshold < threshold
    /\ entries # <<>>
    /\ Len(entries) < Len(prev.entries)
    /\ Paths(probed) # Paths(prev.probed)

\* 256, 512, 1024, ...
RECURSIVE IsDoubled256(_)
IsDoubled256(t) == t = 256 \/ (t > 256 /\ t % 2 = 0 /\ IsDoubled256(t \div 2))

(***************************************************************************)
(* C18 (__main__ multiwrite branch, SpecFair): with --multiwrite the first *)
(* pass after each stop has threshold 256 whatever --visit-threshold is,   *)
(* every pass starts at the root with no records, a pass with more than 2  *)
(* records writes the file named by its threshold and is followed by a     *)
(* pass of twice the threshold, a pass with 2 records or fewer writes no   *)
(* file and ends the loop, and the loop ends: every pass that starts is    *)
(* followed by the next launch or by the end of the run.                   *)
(***************************************************************************)
C18Theorem ==
    /\ [](args.multiwrite =>
             /\ threshold = 0 \/ IsDoubled256(threshold)
             /\ \A f \in files : IsDoubled256(f.name) /\ Len(f.data) > 2 * 16)
    /\ [][(args.multiwrite /\ mpc = "join" /\ mpc' # mpc /\ mpc' # "crashed") =>
              (mpc' = "probing" /\ threshold' = 256)]_vars
    /\ [][(args.multiwrite /\ mpc = "probing" /\ mpc' # mpc) =>
              (entries' = <<>> /\ stack' = <<Frame(StartBoard, <<>>)>>
                  /\ threshold' = threshold)]_vars
    /\ [][(args.multiwrite /\ mpc = "pass_done" /\ mpc' # mpc) =>
              IF Len(entries) > 2
              THEN /\ files' = {f \in files : f.name # threshold} \cup
                                {[name |-> threshold, data |-> write_polyglot_bin(entries)]}
                   /\ threshold' = 2 * threshold
                   /\ mpc' = "probing"
              ELSE /\ files' = files
                   /\ mpc' = "launch"]_vars
    /\ (args.multiwrite /\ mpc = "probing") ~> (mpc \in {"launch", "crashed"})

\* the loop is over: the passes of 256 and 512 wrote their files, the pass of
\* 1024 made 2 records or fewer and wrote none
C18Witness ==
    /\ args.multiwrite
    /\ mpc = "launch"
    /\ threshold = 1024
    /\ {f.name : f \in files} = {256, 512}
    /\ entries # <<>>

(***************************************************************************)
(* C16 (explore_tree, SpecPass): each recursive call has the path of its   *)
(* caller with exactly one move added, no path is probed twice in a pass,  *)
(* the number of probes of a pass is at most one more than the number of   *)
(* child lines of the tree, and with an engine that answers every probe    *)
(* every pass that has started ends (by return to __main__, or by the      *)
(* failed assertion on an illegal move).                                   *)
(***************************************************************************)
C16Theorem ==
    /\ [](\A k \in 1 .. Len(stack) - 1 :
              /\ Len(stack[k + 1].moves) = Len(stack[k].moves) + 1
              /\ Front(stack[k + 1].moves) = stack[k].moves)
    /\ [](\A i, j \in 1 .. Len(probed) : probed[i].moves = probed[j].moves => i = j)
    /\ [](Len(probed) <= 1 + dumped)
    /\ [][(mpc = "probe_send" /\ mpc' = "probe_read") =>
              Top.moves \notin Paths(probed)]_vars
    /\ (mpc = "probe_send") ~> (mpc \in {"pass_done", "crashed"})

\* a pass is over that probed the root, a child and a grandchild
C16Witness ==
    /\ mpc = "pass_done"
    /\ Len(probed) >= 3
    /\ \E j \in 1 .. Len(probed) : Len(probed[j].moves) = 2

\* the moves SpecEnc encodes
EncMoves == {Move(f, t, p) : f \in EncSquares, t \in EncSquares, p \in PieceTypes}

PromotionOfCode(c) ==
    CASE c = 1 -> "KNIGHT" [] c = 2 -> "BISHOP" [] c = 3 -> "ROOK" [] c = 4 -> "QUEEN"
      [] OTHER -> None

\* a castling move written as the king going to the corner square of its rook
\* (e1h1, e1a1, e8h8, e8a8), the form the fix-up of a Polyglot reader undoes
IsKingToCorner(board, move) ==
    /\ move.promotion = None
    /\ move.from_square \in {Square(4, 0), Square(4, 7)}
    /\ move.from_square \in board.kings
    /\ SquareRank(move.to_square) = SquareRank(move.from_square)
    /\ SquareFile(move.to_square) \in {0, 7}

\* the square the king lands on when it castles with the rook of `corner`
KingLanding(corner) ==
    Square(IF SquareFile(corner) = 7 THEN 6 ELSE 2, SquareRank(corner))

\* the move a Polyglot reader takes from a code for a position: the three bit
\* fields, and king-to-corner turned back into the king's two-square move
Decode(board, code) ==
    LET raw == Move((code \div 64) % 64, code % 64, PromotionOfCode((code \div 4096) % 8))
    IN  IF IsKingToCorner(board, raw)
        THEN Move(raw.from_square, KingLanding(raw.to_square), None)
        ELSE raw

\* destination in bits 0-5, origin in bits 6-11, promotion code in bits 12-14
HasLayout(code, move) ==
    /\ code \in 0 .. 32767
    /\ code % 64 = move.to_square
    /\ (code \div 64) % 64 = move.from_square
    /\ (code \div 4096) % 8 = PromotionCode(move.promotion)

\* no other move of the position has the code
IsOnlyMoveWithCode(board, move, code) ==
    \A other \in EncMoves : move_to_polyglot_int(board, other) = code => other = move

CycleOrder ==
    {<<"launch", "sleep">>, <<"sleep", "stop">>, <<"stop", "join">>, <<"join", "probing">>,
     <<"probing", "probe_send">>, <<"probe_send", "probe_read">>,
     <<"probe_read", "explore_body">>, <<"explore_body", "explore_loop">>,
     <<"explore_body", "pass_done">>, <<"explore_loop", "probe_send">>,
     <<"explore_loop", "pass_done">>, <<"pass_done", "probing">>, <<"pass_done", "launch">>}

DumpnodeSent == mpc = "probe_send" /\ mpc' = "probe_read"
GoInfiniteSent == mpc = "launch" /\ mpc' = "sleep"

(***************************************************************************)
(* C17 as claimed (__main__, probe, Spec): the main flow goes through      *)
(* launch, stop, then passes, each pass followed by the write of its file, *)
(* then the next launch; a dumpnode is sent only when the stop has been    *)
(* answered (the reader has read bestmove and ended) and nothing of an     *)
(* earlier answer is left unread; go infinite is sent only when no probe   *)
(* is pending.  Violated: when the engine dies during the search, stop()   *)
(* still returns (C10) and the root dumpnode is sent with the stop         *)
(* unanswered.                                                             *)
(***************************************************************************)
C17Claim ==
    /\ [][(mpc' # mpc /\ mpc' # "crashed") => <<mpc, mpc'>> \in CycleOrder]_vars
    /\ [][DumpnodeSent => (sawBest /\ thread = "exited" /\ pipe = <<>>)]_vars
    /\ [][GoInfiniteSent => (stack = <<>> /\ pipe = <<>> /\ thread # "running")]_vars
    /\ [][(mpc = "pass_done" /\ mpc' # mpc) =>
              \E f \in files' : f.data = write_polyglot_bin(entries)]_vars

\* a search is on: launch() has started it and stop() has not returned
SearchActive == thread = "running" \/ engine \in {"searching", "stopping"}

(***************************************************************************)
(* C11 as claimed (LeelaInterface.probe, SpecApi): a call of probe made    *)
(* while a search is active fails at once, sends no dumpnode and reads no  *)
(* line of the engine's output.  Violated: probe() tests no state, sends   *)
(* dumpnode to the searching engine and reads the stream that the reader   *)
(* thread is reading.                                                      *)
(***************************************************************************)
C11Claim ==
    /\ [][(mpc = "probe_send" /\ SearchActive /\ mpc' # mpc) =>
              (mpc' = "crashed" /\ pipe' = pipe /\ tree' = tree)]_vars
    /\ [][(mpc = "probe_read" /\ pipe' # pipe /\ got' # got) => ~ReaderAlive]_vars

====
